---- MODULE Spec2Model ----
(***************************************************************************)
(* Recognition pipeline of the pen-and-key room server:                    *)
(*   AIServiceManager.process_drawing  (ai_service/service_manager.py)     *)
(*   AIService.recognize_shape         (ai_service/base.py)                *)
(*   the four vendor adapters          (ai_service/services/*.py)          *)
(* Requests are coroutines on one asyncio event loop; an action is the     *)
(* code a coroutine runs between two suspension points (await of a vendor  *)
(* call or of a sink write).                                               *)
(***************************************************************************)
EXTENDS Integers, Sequences, FiniteSets, Bags, TLC

\* Number of ProcessDrawing requests (coroutines) the model runs.
MaxRequests == 2

Requests == 1..MaxRequests

Providers == {"OpenAI", "Google", "Anthropic", "Mistral"}

\* Two members of an adapter's model enumeration.
Models == {"m1", "m2"}

\* current_model = None
None == "None"

Groups == {"A", "B", "BOTH"}

\* Model lists create_with_models can be given: None/[], one model, two.
ModelLists == { <<>>, <<"m1">>, <<"m1", "m2">> }

(***************************************************************************)
(* Values                                                                  *)
(***************************************************************************)

\* uuid.uuid4(): a value no other call site or request produces.
uuid4(r, site) == <<r, site>>

NoId == <<0, "">>

\* ShapeRecognitionServer(...): unset proto3 fields read as "" / 0 / False.
ShapeRecognitionServer(success, result_id, shape_id, score, reasoning, mname, api_response, error_message) ==
    [success |-> success, result_id |-> result_id, shape_id |-> shape_id,
     score |-> score, reasoning |-> reasoning, model_name |-> mname,
     api_response |-> api_response, error_message |-> error_message]

NoModelName == <<"", "">>

\* What a vendor call hands back as text: None, "" or a text, described by
\* what parse_response can observe of it.
Text(kind, fenced, valid_json, has, shape_id, score_ok, score, reason) ==
    [kind |-> kind, fenced |-> fenced, valid_json |-> valid_json, has |-> has,
     shape_id |-> shape_id, score_ok |-> score_ok, score |-> score,
     reason |-> reason, enc |-> "raw"]

NoneResponse == Text("none", FALSE, FALSE, {}, "", FALSE, 0, "")
EmptyResponse == Text("empty", FALSE, FALSE, {}, "", FALSE, 0, "")

Keys == {"shape_id", "score", "reason"}

ValidText == Text("text", FALSE, TRUE, Keys, "triangle", TRUE, 85, "r1")
FencedText == Text("text", TRUE, TRUE, Keys, "triangle", TRUE, 85, "r1")
UnknownIdText == Text("text", FALSE, TRUE, Keys, "circle", TRUE, 85, "r1")
NotJsonText == Text("text", FALSE, FALSE, {}, "", FALSE, 0, "")
NoReasonText ==
    Text("text", FALSE, TRUE, Keys \ {"reason"}, "triangle", TRUE, 85, "")
BadScoreText == Text("text", FALSE, TRUE, Keys, "triangle", FALSE, 0, "r1")
\* A well-formed answer whose score is above 100.
HighScoreText == Text("text", FALSE, TRUE, Keys, "triangle", TRUE, 150, "r1")
\* A well-formed answer whose score is one below the triangle's threshold.
LowScoreText == Text("text", FALSE, TRUE, Keys, "triangle", TRUE, 84, "r1")

\* Texts the vendor may answer request r with: every kind for the first
\* request, a valid and an invalid one for the requests running beside it.
Responses(r) ==
    IF r = 1
    THEN {ValidText, FencedText, UnknownIdText, NotJsonText, NoReasonText,
          BadScoreText, HighScoreText, LowScoreText}
    ELSE {ValidText, UnknownIdText}

\* Shape catalogues get_available_shapes can return (shape ids only).
Catalogs == { <<>>, <<"triangle", "square">> }

Exception(type, message) == [type |-> type, message |-> message]

NoException == Exception("", <<>>)

\* str(e)
str(e) == e.message

SinkError == Exception("OperationalError", <<"sink write failed">>)

(***************************************************************************)
(* service_manager.py                                                      *)
(***************************************************************************)

\* Feature dictionaries handed to process_drawing.  Lengths are in
\* thousandths; numeric is FALSE when some stroke's total_length is not a
\* number (None).  has_global is FALSE for a dictionary without
\* "global_features".  The inputs: a well-formed drawing of three strokes
\* (group A) and one whose stroke length is None.
Features(has_global, total_points, total_strokes, lengths, numeric) ==
    [has_global |-> has_global, total_points |-> total_points,
     total_strokes |-> total_strokes, lengths |-> lengths,
     numeric |-> numeric]

FeatureInputs ==
    { Features(TRUE, 10, 3, <<1000, 1000, 1000>>, TRUE),
      Features(TRUE, 3, 1, <<0>>, FALSE) }

RECURSIVE SumLengths(_)
SumLengths(s) == IF s = <<>> THEN 0 ELSE Head(s) + SumLengths(Tail(s))

\* sum(...) raises TypeError when a total_length is not a number.
SumRaises(f) == ~f.numeric

\* Mutant: the lower density limit of GROUP_BOTH is inclusive.
MutClassifyInclusive(f) ==
    IF SumRaises(f) THEN [raised |-> TRUE, group |-> "none"]
    ELSE LET tp == f.total_points
             tl == SumLengths(f.lengths)
             ts == f.total_strokes
         IN  [raised |-> FALSE,
              group |-> IF tl > 0 /\ 6 * tl <= 1000 * tp /\ 1000 * tp < 82 * tl
                           /\ 4 <= ts /\ ts <= 16 THEN "BOTH"
                        ELSE IF (tl > 0 /\ 1000 * tp > 50 * tl) \/ ts <= 2
                                \/ tl < 200 THEN "B"
                        ELSE "A"]

\* AIServiceManager.classify_drawing: point_density = total_points /
\* total_length (0 when total_length is 0), compared by cross-multiplying.
classify_drawing(f) ==
    IF SumRaises(f) THEN [raised |-> TRUE, group |-> "none"]
    ELSE LET tp == f.total_points
             tl == SumLengths(f.lengths)
             ts == f.total_strokes
         IN  [raised |-> FALSE,
              group |-> IF tl > 0 /\ 6 * tl < 1000 * tp /\ 1000 * tp < 82 * tl
                           /\ 4 <= ts /\ ts <= 16 THEN "BOTH"
                        ELSE IF (tl > 0 /\ 1000 * tp > 50 * tl) \/ ts <= 2
                                \/ tl < 200 THEN "B"
                        ELSE "A"]

(***************************************************************************)
(* prompt_manager.py                                                       *)
(***************************************************************************)

\* Mutant: create_system_prompt builds a prompt from an empty catalogue.
MutPromptIgnoresCatalog(shape_infos, f) ==
    IF ~f.has_global
    THEN Exception("KeyError", <<"'aspect_ratio'">>)
    ELSE NoException

\* create_system_prompt reads shape_infos[0]; create_data_prompt reads
\* global_features['aspect_ratio'].  The prompts' text is not modelled, only
\* whether building them raises.
BuildPrompt(shape_infos, f) ==
    IF shape_infos = <<>>
    THEN Exception("IndexError", <<"list index out of range">>)
    ELSE IF ~f.has_global
    THEN Exception("KeyError", <<"'aspect_ratio'">>)
    ELSE NoException

(***************************************************************************)
(* services/open_ai.py, google_ai.py, anthropic_ai.py, mistral_ai.py       *)
(***************************************************************************)

\* OpenAI(...).chat.completions.create and genai generate_content are plain
\* calls: the event loop runs nothing else until they return.  The
\* Anthropic and Mistral calls are awaited.
SyncClient(p) == p \in {"OpenAI", "Google"}

\* Mutant: an adapter without an API key is not disabled.
MutDisabledIgnoresKey(ms, key) == ms = <<>>

\* create_with_models: `if not models or not self.api_key`.
Disabled(ms, key) == ms = <<>> \/ ~key

\* Mutant: no adapter preselects a model.
MutInitialNone(p, ms) == None

\* create_with_models: current_model after construction of an enabled
\* adapter.
InitialCurrentModel(p, ms) ==
    IF p \in {"OpenAI", "Google"} THEN ms[1] ELSE None

\* The model_name property.
model_name(p, cm) == <<p, IF cm = None THEN "unknown" ELSE cm>>

\* call_ai_api hands an empty text back to recognize_shape (every adapter
\* but Google, which goes on to the next model).
ReturnsEmptyText(p) == p # "Google"

\* parse_response cuts the text out of a ```json fence (not in Google's).
StripsFence(p) == p # "Google"

\* Mutant: the error response draws its own id even when given an error_id.
MutErrorResponseFreshId(message, error_id, fresh) ==
    ShapeRecognitionServer(FALSE, fresh, "", 0, "", NoModelName, NoneResponse,
                           message)

\* AIService.create_error_response; fresh is the uuid4 it draws when no
\* error_id is given.
create_error_response(message, error_id, fresh) ==
    ShapeRecognitionServer(FALSE, IF error_id # NoId THEN error_id ELSE fresh,
                           "", 0, "", NoModelName, NoneResponse, message)

\* json.dumps(result) of the parsed object: the text without its fence.
json_dumps(t) == [t EXCEPT !.fenced = FALSE]

\* json.dumps(params["api_response"]) in insert_detail: the raw text as a
\* JSON string literal.
dumps_str(t) == [t EXCEPT !.enc = "json_string"]

\* Mutant: the shape_id is not looked up in the catalogue.
MutInCatalogAny(shape_infos, id) == TRUE

\* next((s for s in shape_infos if s["shape_id"] == result["shape_id"]), None)
InCatalog(shape_infos, id) == \E i \in 1..Len(shape_infos) : shape_infos[i] = id

\* Mutant: a missing reason reads as "" and a score that is no number as 0.
MutParseLenient(p, response, shape_infos, result_id, mname, fresh) ==
    LET err(e) == create_error_response(str(e), NoId, fresh) IN
    IF ~response.valid_json \/ (response.fenced /\ ~StripsFence(p))
    THEN err(Exception("JSONDecodeError", <<"Expecting value">>))
    ELSE IF "shape_id" \notin response.has
    THEN err(Exception("KeyError", <<"'shape_id'">>))
    ELSE IF ~InCatalog(shape_infos, response.shape_id)
    THEN err(Exception("ValueError", <<"Invalid shape ID:", response.shape_id>>))
    ELSE ShapeRecognitionServer(TRUE, result_id, response.shape_id,
                                response.score, response.reason, mname,
                                json_dumps(response), <<>>)

\* parse_response of adapter p; mname is self.model_name at the time of the
\* call, fresh the uuid4 of the error response.
parse_response(p, response, shape_infos, result_id, mname, fresh) ==
    LET err(e) == create_error_response(str(e), NoId, fresh) IN
    IF ~response.valid_json \/ (response.fenced /\ ~StripsFence(p))
    THEN err(Exception("JSONDecodeError", <<"Expecting value">>))
    ELSE IF "shape_id" \notin response.has
    THEN err(Exception("KeyError", <<"'shape_id'">>))
    ELSE IF ~InCatalog(shape_infos, response.shape_id)
    THEN err(Exception("ValueError", <<"Invalid shape ID:", response.shape_id>>))
    ELSE IF "score" \notin response.has
    THEN err(Exception("KeyError", <<"'score'">>))
    ELSE IF ~response.score_ok
    THEN err(Exception("ValueError", <<"invalid literal for int()">>))
    ELSE IF "reason" \notin response.has
    THEN err(Exception("KeyError", <<"'reason'">>))
    ELSE ShapeRecognitionServer(TRUE, result_id, response.shape_id,
                                response.score, response.reason, mname,
                                json_dumps(response), <<>>)

(***************************************************************************)
(* features/feature_extractor.py                                           *)
(* Coordinates and lengths are whole millimetres (the code's unit is the   *)
(* metre); distances are compared exactly, as squared rationals.           *)
(***************************************************************************)

\* Largest number of positions of a stroke.
MaxPoints == 4

\* The most lines of a drawing.
MaxStrokes == 3

\* Coroutines that call DatabaseConnection.get_pool, and the most pools
\* aiomysql.create_pool is let create.
MaxCallers == 3

MaxPools == 3

Point3D(x, y, z) == [x |-> x, y |-> y, z |-> z]

\* Positions a stroke is drawn over: on a line, beside it at the default
\* epsilon and beyond it, twice at the same distance, off the plane, and
\* just below, at and just above the closure threshold from the origin.
Points ==
    { Point3D(0, 0, 0), Point3D(20, 0, 0), Point3D(10, 10, 0),
      Point3D(10, 20, 0), Point3D(30, 20, 0), Point3D(10, 0, 30),
      Point3D(49, 0, 0), Point3D(50, 0, 0), Point3D(51, 0, 0) }

\* epsilon values: 0 and the default 0.01.
Epsilons == {0, 10}

\* Position sequences of up to MaxPoints points, the empty one included.
PositionLists ==
    UNION { [1..n -> Points] : n \in 0..MaxPoints }

\* A distance as the rational n/d of its square.
Squared(n, d) == [n |-> n, d |-> d]

\* a/b > c/d for naturals with b, d > 0, by quotients and remainders (the
\* products of a cross-multiplication would not fit the integers).
RECURSIVE FractionGreater(_, _, _, _)
FractionGreater(a, b, c, d) ==
    IF a \div b # c \div d THEN a \div b > c \div d
    ELSE IF a % b = 0 THEN FALSE
    ELSE IF c % d = 0 THEN TRUE
    ELSE FractionGreater(d, c % d, b, a % b)

\* a > b for two distances.
Greater(a, b) == FractionGreater(a.n, a.d, b.n, b.d)

\* (end - start) squared, over x, y and z.
Dist2(a, b) ==
    (b.x - a.x) * (b.x - a.x) + (b.y - a.y) * (b.y - a.y)
        + (b.z - a.z) * (b.z - a.z)

Abs(v) == IF v < 0 THEN 0 - v ELSE v

\* FeatureExtractor.distance_point_to_line: the distance to the shared end
\* point for a zero-length line, else the x,y cross product over the 3D
\* length of the line.
distance_point_to_line(point, line_start, line_end) ==
    IF line_start.x = line_end.x /\ line_start.y = line_end.y
           /\ line_start.z = line_end.z
    THEN Squared(Dist2(line_start, point), 1)
    ELSE LET numerator ==
                 Abs((line_end.x - line_start.x) * (line_start.y - point.y)
                     - (line_start.x - point.x) * (line_end.y - line_start.y))
         IN  Squared(numerator * numerator, Dist2(line_start, line_end))

\* `if d > dmax`
Farther(d, dmax) == Greater(d, dmax)

\* The loop `for i in range(1, len(points) - 1)` from position i on (here
\* positions count from 1), carrying index and dmax.
RECURSIVE FindMax(_, _, _, _)
FindMax(points, i, index, dmax) ==
    IF i > Len(points) - 1 THEN [index |-> index, dmax |-> dmax]
    ELSE LET d == distance_point_to_line(points[i], points[1],
                                         points[Len(points)])
         IN  IF Farther(d, dmax)
             THEN FindMax(points, i + 1, i, d)
             ELSE FindMax(points, i + 1, index, dmax)

\* Mutant: the collapsed stroke keeps its first point only.
MutCollapseFirst(points) == <<points[1]>>

\* `return [points[0], points[-1]]`
Collapse(points) == <<points[1], points[Len(points)]>>

\* Mutant: the split point is kept by both halves.
MutJoinKeepBoth(rec_results1, rec_results2) == rec_results1 \o rec_results2

\* `return rec_results1[:-1] + rec_results2`
Join(rec_results1, rec_results2) ==
    SubSeq(rec_results1, 1, Len(rec_results1) - 1) \o rec_results2

\* Mutant: the first part stops before the split point.
MutLeftBeforeSplit(points, index) == SubSeq(points, 1, index - 1)

\* `points[:index+1]` (positions count from 1 here)
Left(points, index) == SubSeq(points, 1, index)

\* `points[index:]`
Right(points, index) == SubSeq(points, index, Len(points))

\* FeatureExtractor.douglas_peucker
RECURSIVE douglas_peucker(_, _)
douglas_peucker(points, eps) ==
    IF Len(points) <= 2 THEN points
    ELSE LET m == FindMax(points, 2, 1, Squared(0, 1))
         IN  IF Greater(m.dmax, Squared(eps * eps, 1))
             THEN Join(douglas_peucker(Left(points, m.index), eps),
                       douglas_peucker(Right(points, m.index), eps))
             ELSE Collapse(points)

\* The largest k in lo..hi with k * k <= v, by bisection.
RECURSIVE SqrtFrom(_, _, _)
SqrtFrom(v, lo, hi) ==
    IF lo >= hi THEN lo
    ELSE LET mid == (lo + hi + 1) \div 2
         IN  IF mid * mid <= v THEN SqrtFrom(v, mid, hi)
             ELSE SqrtFrom(v, lo, mid - 1)

\* float(np.sqrt(v)) of a squared length in square millimetres, in
\* hundredths of a millimetre.
sqrt(v) == SqrtFrom(v * 100 * 100, 0, 40000)

\* The sum of the distances between consecutive points.
RECURSIVE PathLength(_)
PathLength(points) ==
    IF Len(points) <= 1 THEN 0
    ELSE sqrt(Dist2(points[1], points[2])) + PathLength(Tail(points))

\* max(coords) - min(coords) over one coordinate of the points.
Extent(points, c) ==
    LET vs == {points[i][c] : i \in 1..Len(points)}
    IN  (CHOOSE v \in vs : \A w \in vs : w <= v)
            - (CHOOSE v \in vs : \A w \in vs : v <= w)

NoStrokeFeatures ==
    [points_count |-> 0,
     bounding_box |-> [width |-> 0, height |-> 0, depth |-> 0],
     start_point |-> Point3D(0, 0, 0), end_point |-> Point3D(0, 0, 0),
     total_length |-> 0, is_closed |-> FALSE, simplified_points |-> <<>>]

\* Mutant: a stroke ending exactly at the threshold counts as closed.
MutClosedInclusive(start, end) == Dist2(start, end) <= 50 * 50

\* float(np.sqrt(dx**2 + dy**2 + dz**2)) < threshold, threshold = 0.05 (50 mm).
Closed(start, end) == Dist2(start, end) < 50 * 50

\* Mutant: the length is summed over the simplified points.
MutLengthOfSimplified(ps, eps) ==
    IF ps = <<>>
    THEN [status |-> "raised", features |-> NoStrokeFeatures]
    ELSE LET simplified_points == douglas_peucker(ps, eps)
         IN  [status |-> "returned",
              features |->
                [points_count |-> Len(simplified_points),
                 bounding_box |-> [width |-> Extent(ps, "x"),
                                   height |-> Extent(ps, "y"),
                                   depth |-> Extent(ps, "z")],
                 start_point |-> ps[1],
                 end_point |-> ps[Len(ps)],
                 total_length |-> PathLength(simplified_points),
                 is_closed |-> Closed(ps[1], ps[Len(ps)]),
                 simplified_points |-> simplified_points]]

\* FeatureExtractor.calculate_stroke_features: `start = points[0]` raises
\* IndexError for an empty list; threshold 0.05 is 50 mm.
calculate_stroke_features(ps, eps) ==
    IF ps = <<>>
    THEN [status |-> "raised", features |-> NoStrokeFeatures]
    ELSE LET simplified_points == douglas_peucker(ps, eps)
         IN  [status |-> "returned",
              features |->
                [points_count |-> Len(simplified_points),
                 bounding_box |-> [width |-> Extent(ps, "x"),
                                   height |-> Extent(ps, "y"),
                                   depth |-> Extent(ps, "z")],
                 start_point |-> ps[1],
                 end_point |-> ps[Len(ps)],
                 total_length |-> PathLength(ps),
                 is_closed |-> Closed(ps[1], ps[Len(ps)]),
                 simplified_points |-> simplified_points]]

\* Positions of a drawing's lines: two on the x-axis and one beside it at
\* the default epsilon, off the plane.
DrawPoints == { Point3D(0, 0, 0), Point3D(20, 0, 0), Point3D(10, 10, 30) }

\* line.positions: no position, one, two (also twice the same), and three
\* with the off-axis position inside (dropped at the default epsilon) and
\* at the end.
DrawLines ==
    { <<>>,
      <<Point3D(0, 0, 0)>>,
      <<Point3D(10, 10, 30)>>,
      <<Point3D(0, 0, 0), Point3D(20, 0, 0)>>,
      <<Point3D(0, 0, 0), Point3D(10, 10, 30)>>,
      <<Point3D(20, 0, 0), Point3D(20, 0, 0)>>,
      <<Point3D(0, 0, 0), Point3D(10, 10, 30), Point3D(20, 0, 0)>>,
      <<Point3D(0, 0, 0), Point3D(20, 0, 0), Point3D(10, 10, 30)>> }

\* drawing_data.draw_lines: up to MaxStrokes lines, none included.
Drawings == UNION { [1..n -> DrawLines] : n \in 0..MaxStrokes }

RECURSIVE GCD(_, _)
GCD(a, b) == IF b = 0 THEN a ELSE GCD(b, a % b)

\* What `n / d` raises for d = 0.
ZeroDivisionError == [n |-> 0, d |-> 0]

\* The float n / d for naturals, as a reduced fraction.
Divide(n, d) ==
    IF d = 0 THEN ZeroDivisionError
    ELSE [n |-> n \div GCD(n, d), d |-> d \div GCD(n, d)]

\* all_points: the strokes' simplified points, one list.
RECURSIVE Flatten(_)
Flatten(strokes) ==
    IF strokes = <<>> THEN <<>>
    ELSE Head(strokes).simplified_points \o Flatten(Tail(strokes))

\* sum(coords) over one coordinate of the points.
RECURSIVE Sum(_, _)
Sum(points, c) ==
    IF points = <<>> THEN 0 ELSE Head(points)[c] + Sum(Tail(points), c)

\* Mutant: the height is not looked at before dividing.
MutAspectDivides(width, height) == Divide(width, height)

\* width / height if height != 0 else 0
AspectRatio(width, height) ==
    IF height # 0 THEN Divide(width, height) ELSE Divide(0, 1)

NoGlobalFeatures ==
    [total_strokes |-> 0, total_points |-> 0, aspect_ratio |-> Divide(0, 1),
     centroid |-> [x |-> Divide(0, 1), y |-> Divide(0, 1), z |-> Divide(0, 1)]]

\* FeatureExtractor.calculate_global_features: max() of an empty list
\* raises ValueError, a division by 0 ZeroDivisionError.
calculate_global_features(strokes) ==
    LET all_points == Flatten(strokes) IN
    IF all_points = <<>>
    THEN [status |-> "raised", features |-> NoGlobalFeatures]
    ELSE LET width == Extent(all_points, "x")
             height == Extent(all_points, "y")
             aspect_ratio == AspectRatio(width, height)
         IN  IF aspect_ratio = ZeroDivisionError
             THEN [status |-> "raised", features |-> NoGlobalFeatures]
             ELSE [status |-> "returned",
                   features |->
                     [total_strokes |-> Len(strokes),
                      total_points |-> Len(all_points),
                      aspect_ratio |-> aspect_ratio,
                      centroid |->
                        [x |-> Divide(Sum(all_points, "x"), Len(all_points)),
                         y |-> Divide(Sum(all_points, "y"), Len(all_points)),
                         z |-> Divide(Sum(all_points, "z"), Len(all_points))]]]

NotExtracted ==
    [status |-> "off", strokes |-> <<>>, global_features |-> NoGlobalFeatures]

\* FeatureExtractor.extract_features: the strokes' features in the order of
\* the lines, then the global features; an exception of either leaves it.
extract_features(lines, eps) ==
    LET answers == [i \in 1..Len(lines) |-> calculate_stroke_features(lines[i], eps)]
        stroke_features == [i \in 1..Len(lines) |-> answers[i].features]
    IN  IF \E i \in 1..Len(lines) : answers[i].status = "raised"
        THEN [NotExtracted EXCEPT !.status = "raised"]
        ELSE LET global == calculate_global_features(stroke_features)
             IN  IF global.status = "raised"
                 THEN [NotExtracted EXCEPT !.status = "raised"]
                 ELSE [status |-> "returned", strokes |-> stroke_features,
                       global_features |-> global.features]

(***************************************************************************)
(* State                                                                   *)
(***************************************************************************)

VARIABLES
    provider,       \* the adapter's class
    api_key,        \* whether self.api_key is a non-empty string
    enabled,        \* self.enabled
    models,         \* self.models
    current_model,  \* self.current_model
    services,       \* groups AIServiceManager.services binds to the adapter
    pc,             \* where each request's coroutine is suspended
    group,          \* process_drawing's local `group`
    shape_infos,    \* the catalogue the request was given
    calls,          \* vendor calls the request made: [idx, model, outcome]
    response,       \* recognize_shape's local `response`
    result,         \* recognize_shape's local `result`
    detail,         \* the dictionary handed to insert_detail
    exc,            \* the exception recognize_shape's handler is logging
    ret,            \* what process_drawing gave its caller
    results,        \* rows of the results table (a bag)
    details,        \* rows of the result_details table (a bag)
    errors,         \* rows of the error_logs table (a bag)
    hpc,            \* where each ProcessDrawing handler is suspended
    save_task,      \* the insert_features coroutine of each handler
    ai_task,        \* the process_drawing coroutine of each handler
    reply,          \* what the handler answered its client
    shape_features, \* rows of the shape_features table (a bag)
    features,       \* the features dictionary given to classify_drawing
    classified,     \* what classify_drawing answered for it
    positions,      \* the positions given to calculate_stroke_features
    epsilon,        \* FeatureExtractor.epsilon
    stroke,         \* what calculate_stroke_features answered
    draw_lines,     \* drawing_data.draw_lines given to extract_features
    drawing_features, \* what extract_features answered
    pool,           \* DatabaseConnection._pool (NoPool for None)
    gpc,            \* where each caller of get_pool is
    got,            \* the pool get_pool returned to each caller
    made,           \* pools aiomysql.create_pool has created so far
    epoch,          \* pools created since the last call of close_pool
    closing         \* where close_pool is

adapter == <<provider, api_key, enabled, models, services>>
sinks == <<results, details, errors>>
locals == <<group, shape_infos, calls, response, result, detail, exc>>
handler == <<hpc, save_task, ai_task, reply, shape_features>>
classifier == <<features, classified>>
extractor == <<positions, epsilon, stroke, draw_lines, drawing_features>>
database == <<pool, gpc, got, made, epoch, closing>>
vars == <<provider, api_key, enabled, models, current_model, services, pc, group,
          shape_infos, calls, response, result, detail, exc, ret, results,
          details, errors, handler, classifier, extractor, database>>

NoResult == ShapeRecognitionServer(FALSE, NoId, "", 0, "", NoModelName,
                                   NoneResponse, <<>>)

NoDetail == [result_id |-> NoId, drawing_id |-> 0, shape_id |-> "",
             success |-> FALSE, score |-> 0, reasoning |-> "",
             model_name |-> NoModelName, api_response |-> NoneResponse,
             error_message |-> <<>>]

\* ret: kind is "pending", "returned" or "raised"; via tells whether the value
\* is the one recognize_shape returned or one process_drawing built itself.
Pending ==
    [kind |-> "pending", via |-> "", value |-> NoResult, exc |-> NoException]

\* What a handler answered: nothing yet, None (use_ai unset), a
\* ShapeRecognitionClient, or context.abort(INTERNAL, message).
ShapeRecognitionClient(kind, success, prefab_name, error_message) ==
    [kind |-> kind, success |-> success, prefab_name |-> prefab_name,
     error_message |-> error_message]

NoReply == ShapeRecognitionClient("pending", FALSE, "", <<>>)

\* classify_drawing and calculate_stroke_features are not under study.
ClassifierOff ==
    /\ features = Features(TRUE, 0, 0, <<>>, TRUE)
    /\ classified = "off"

\* database/connection.py at import: `_pool = None`, nobody calling.
Callers == 1..MaxCallers

NoPool == 0

PoolUnset ==
    /\ pool = NoPool
    /\ gpc = [c \in Callers |-> "idle"]
    /\ got = [c \in Callers |-> NoPool]
    /\ made = 0
    /\ epoch = {}
    /\ closing = "idle"

\* extract_features is not under way.
DrawingOff ==
    /\ draw_lines = <<>>
    /\ drawing_features = NotExtracted

ExtractorOff ==
    /\ positions = <<>>
    /\ epsilon = 0
    /\ stroke = [status |-> "off", features |-> NoStrokeFeatures]
    /\ DrawingOff

\* No ProcessDrawing request has arrived.
HandlerInit ==
    /\ hpc = [r \in Requests |-> "idle"]
    /\ save_task = [r \in Requests |-> "none"]
    /\ ai_task = [r \in Requests |-> "none"]
    /\ reply = [r \in Requests |-> NoReply]
    /\ shape_features = EmptyBag

\* No process_drawing call has been made and the tables are empty.
NoRequests ==
    /\ pc = [r \in Requests |-> "idle"]
    /\ group = [r \in Requests |-> "none"]
    /\ shape_infos = [r \in Requests |-> <<>>]
    /\ calls = [r \in Requests |-> <<>>]
    /\ response = [r \in Requests |-> NoneResponse]
    /\ result = [r \in Requests |-> NoResult]
    /\ detail = [r \in Requests |-> NoDetail]
    /\ exc = [r \in Requests |-> NoException]
    /\ ret = [r \in Requests |-> Pending]
    /\ results = EmptyBag
    /\ details = EmptyBag
    /\ errors = EmptyBag

\* AIService.create + create_with_models(api_key, ms), and the manager's
\* services dictionary.
Init ==
    /\ provider \in Providers
    /\ api_key \in BOOLEAN
    /\ \E ms \in ModelLists :
          IF Disabled(ms, api_key)
          THEN enabled = FALSE /\ models = <<>> /\ current_model = None
          ELSE /\ enabled = TRUE
               /\ models = ms
               /\ current_model = InitialCurrentModel(provider, ms)
    /\ services \in {Groups, Groups \ {"A"}}
    /\ NoRequests
    /\ HandlerInit
    /\ ClassifierOff
    /\ ExtractorOff
    /\ PoolUnset

(***************************************************************************)
(* Steps                                                                   *)
(***************************************************************************)

\* No other coroutine is inside a blocking vendor call, so r can run.
LoopFree(r) ==
    \A q \in Requests \ {r} : ~(pc[q] = "call" /\ SyncClient(provider))

\* result_id = str(uuid.uuid4()) on entry to recognize_shape.
result_id(r) == uuid4(r, "result")

\* error_id = str(uuid.uuid4()) in recognize_shape's handler.
error_id(r) == uuid4(r, "error")

\* `if not result:` after parse_response: a protobuf message defines neither
\* __bool__ nor __len__, so it is never falsy.
Falsy(msg) == FALSE

\* Mutant: `if response is None:`.
MutNotResponseNoneOnly(t) == t.kind = "none"

\* `if not response:` in recognize_shape: None and "" are falsy.
NotResponse(t) == t.kind # "text"

\* Mutant: current_model is left at the first model.
MutSelectFirst(ms, i) == ms[1]

\* `self.current_model = model` for the i-th model of the list.
SelectModel(ms, i) == ms[i]

\* Mutant: a failed model is tried again.
MutRetrySame(i) == i

\* `continue`: the loop goes on with the model after the i-th.
NextIndex(i) == i + 1

\* process_drawing hands v to its caller; c is the request's call log.
Return(r, via, v, c) ==
    /\ pc' = [pc EXCEPT ![r] = "done"]
    /\ ret' = [ret EXCEPT ![r] =
                 [kind |-> "returned", via |-> via, value |-> v,
                  exc |-> NoException]]
    /\ calls' = [calls EXCEPT ![r] = c]
    /\ UNCHANGED <<exc, current_model, response, result>>

\* An exception leaves process_drawing.
Raise(r, e) ==
    /\ pc' = [pc EXCEPT ![r] = "done"]
    /\ ret' = [ret EXCEPT ![r] =
                 [kind |-> "raised", via |-> "manager", value |-> NoResult,
                  exc |-> e]]
    /\ UNCHANGED <<calls, exc, current_model, response, result>>

\* recognize_shape's `except Exception as e`, up to the await of
\* insert_error_log.
Handle(r, e) ==
    /\ exc' = [exc EXCEPT ![r] = e]
    /\ pc' = [pc EXCEPT ![r] = "wr_error"]
    /\ UNCHANGED <<ret, calls, current_model, response, result>>

\* recognize_shape after call_ai_api returned t: the no-response return, or
\* parse_response and the start of insert_result.
GotResponse(r, t, shapes, c) ==
    IF NotResponse(t)
    THEN Return(r, "recognize", create_error_response(<<"No response from AI service">>,
                                         NoId, uuid4(r, "response")), c)
    ELSE LET parsed == parse_response(provider, t, shapes, result_id(r),
                                      model_name(provider, current_model),
                                      uuid4(r, "response"))
         IN  IF Falsy(parsed)
             THEN Return(r, "recognize",
                         create_error_response(<<"Failed to parse response">>,
                                               NoId, uuid4(r, "response2")), c)
             ELSE /\ response' = [response EXCEPT ![r] = t]
                  /\ result' = [result EXCEPT ![r] = parsed]
                  /\ calls' = [calls EXCEPT ![r] = c]
                  /\ pc' = [pc EXCEPT ![r] = "wr_result"]
                  /\ UNCHANGED <<ret, exc, current_model>>

\* call_ai_api's `for model in self.models` at position i: leave the loop
\* with None, or set current_model and start the vendor call.
Attempt(r, i, shapes, c) ==
    IF i > Len(models)
    THEN GotResponse(r, NoneResponse, shapes, c)
    ELSE /\ current_model' = SelectModel(models, i)
         /\ calls' = [calls EXCEPT ![r] =
                Append(c, [idx |-> i, model |-> models[i], outcome |-> "pending"])]
         /\ pc' = [pc EXCEPT ![r] = "call"]
         /\ UNCHANGED <<ret, exc, response, result>>

\* Mutant: every group has a service.
MutGetAny(svcs, g) == TRUE

\* self.services.get(group): whether the dictionary has a service for g.
get(svcs, g) == g \in svcs

\* process_drawing from its call to the first suspension: classify, look the
\* adapter up, enter recognize_shape, build the prompts, enter call_ai_api.
Start(r) ==
    /\ pc[r] = "idle"
    /\ LoopFree(r)
    /\ \E f \in FeatureInputs, s \in Catalogs :
         LET c == classify_drawing(f) IN
         /\ shape_infos' = [shape_infos EXCEPT ![r] = s]
         /\ IF c.raised
            THEN \* the handler formats group.value, and group is unbound
                 /\ Raise(r, Exception("UnboundLocalError", <<"group">>))
                 /\ UNCHANGED group
            ELSE /\ group' = [group EXCEPT ![r] = c.group]
                 /\ IF ~get(services, c.group)
                    THEN Return(r, "manager",
                                ShapeRecognitionServer(FALSE, NoId, "", 0, "",
                                   NoModelName, NoneResponse,
                                   <<"No AI service configured for group", c.group>>),
                                <<>>)
                    ELSE LET e == BuildPrompt(s, f) IN
                         IF e # NoException THEN Handle(r, e)
                         ELSE IF ~enabled
                         THEN GotResponse(r, NoneResponse, s, <<>>)
                         ELSE Attempt(r, 1, s, <<>>)
    /\ UNCHANGED <<adapter, detail, sinks>>

VendorOutcomes(r) ==
    {[raised |-> TRUE, text |-> NoneResponse]}
        \cup {[raised |-> FALSE, text |-> t] : t \in Responses(r) \cup {EmptyResponse}}

\* The vendor call in flight returns or raises; call_ai_api and
\* recognize_shape run on to the next suspension.
VendorReturn(r) ==
    /\ pc[r] = "call"
    /\ LoopFree(r)
    /\ \E o \in VendorOutcomes(r) :
         LET n == Len(calls[r])
             i == calls[r][n].idx
             c == [calls[r] EXCEPT ![n].outcome =
                      IF o.raised THEN "raised" ELSE o.text.kind]
         IN  IF o.raised THEN Attempt(r, NextIndex(i), shape_infos[r], c)
             ELSE IF o.text.kind = "empty" /\ ~ReturnsEmptyText(provider)
             THEN Attempt(r, NextIndex(i), shape_infos[r], c)
             ELSE GotResponse(r, o.text, shape_infos[r], c)
    /\ UNCHANGED <<adapter, group, shape_infos, detail, sinks>>

\* insert_result completes; on success recognize_shape builds the detail
\* dictionary (reading self.model_name) and starts insert_detail.
InsertResultDone(r) ==
    /\ pc[r] = "wr_result"
    /\ LoopFree(r)
    /\ \E ok \in BOOLEAN :
         IF ok
         THEN /\ results' = results (+) SetToBag({
                    [result_id |-> result_id(r), drawing_id |-> r,
                     shape_id |-> result[r].shape_id, success |-> TRUE]})
              /\ detail' = [detail EXCEPT ![r] =
                    [result_id |-> result_id(r), drawing_id |-> r,
                     shape_id |-> result[r].shape_id, success |-> TRUE,
                     score |-> result[r].score,
                     reasoning |-> result[r].reasoning,
                     model_name |-> model_name(provider, current_model),
                     api_response |-> response[r], error_message |-> <<>>]]
              /\ pc' = [pc EXCEPT ![r] = "wr_detail"]
              /\ UNCHANGED <<ret, exc, calls, current_model, response, result>>
         ELSE Handle(r, SinkError) /\ UNCHANGED <<results, detail>>
    /\ UNCHANGED <<adapter, group, shape_infos, details, errors>>

\* Mutant: the result is returned without a detail row.
MutInsertDetailSkipped(r) ==
    /\ pc[r] = "wr_detail"
    /\ Return(r, "recognize", result[r], calls[r])
    /\ UNCHANGED <<adapter, group, shape_infos, detail, results, details, errors>>

\* insert_detail completes; on success recognize_shape returns result.
InsertDetailDone(r) ==
    /\ pc[r] = "wr_detail"
    /\ LoopFree(r)
    /\ \E ok \in BOOLEAN :
         IF ok
         THEN /\ details' = details (+) SetToBag({
                    [detail[r] EXCEPT !.api_response = dumps_str(@)]})
              /\ Return(r, "recognize", result[r], calls[r])
         ELSE Handle(r, SinkError) /\ UNCHANGED details
    /\ UNCHANGED <<adapter, group, shape_infos, detail, results, errors>>

\* insert_error_log completes: recognize_shape returns the error response,
\* or the sink's exception leaves it and process_drawing's handler answers.
InsertErrorDone(r) ==
    /\ pc[r] = "wr_error"
    /\ LoopFree(r)
    /\ \E ok \in BOOLEAN :
         IF ok
         THEN /\ errors' = errors (+) SetToBag({
                    [error_id |-> error_id(r), result_id |-> result_id(r),
                     drawing_id |-> r, error_type |-> exc[r].type,
                     error_message |-> str(exc[r]), stack_trace |-> TRUE]})
              /\ Return(r, "recognize",
                        create_error_response(str(exc[r]), error_id(r),
                                              uuid4(r, "unused")), calls[r])
         ELSE /\ Return(r, "manager",
                        ShapeRecognitionServer(FALSE, NoId, "", 0, "",
                              NoModelName, NoneResponse,
                              <<"Error processing with", group[r], "service:">>
                                  \o str(SinkError)), calls[r])
              /\ UNCHANGED errors
    /\ UNCHANGED <<adapter, group, shape_infos, detail, results, details>>

Next ==
    /\ \E r \in Requests :
          \/ Start(r)
          \/ VendorReturn(r)
          \/ InsertResultDone(r)
          \/ InsertDetailDone(r)
          \/ InsertErrorDone(r)
    /\ UNCHANGED <<handler, classifier, extractor, database>>

Spec == Init /\ [][Next]_vars

\* One request at a time, in the order of their numbers: a request starts
\* when the ones before it are done.
StartAlone(r) ==
    /\ \A q \in Requests : q < r => pc[q] = "done"
    /\ \A q \in Requests : q > r => pc[q] = "idle"
    /\ Start(r)

NextSeq ==
    /\ \E r \in Requests :
          \/ StartAlone(r)
          \/ VendorReturn(r)
          \/ InsertResultDone(r)
          \/ InsertDetailDone(r)
          \/ InsertErrorDone(r)
    /\ UNCHANGED <<handler, classifier, extractor, database>>

SpecSeq == Init /\ [][NextSeq]_vars

(***************************************************************************)
(* grpc_server.py: GrpcService.ProcessDrawing                              *)
(***************************************************************************)

\* The event loop is not held by a blocking vendor call.
LoopIdle == \A q \in Requests : ~(pc[q] = "call" /\ SyncClient(provider))

\* Rows of mstr_shapes that get_shape_info_by_id can find.
mstr_shapes == {"triangle", "square"}

\* get_shape_info_by_id(shape_id): the row, or None for an id without one.
get_shape_info_by_id(shape_id) ==
    IF shape_id = "triangle"
    THEN [found |-> TRUE, prefab_name |-> "TrianglePrefab", threshold |-> 85]
    ELSE IF shape_id = "square"
    THEN [found |-> TRUE, prefab_name |-> "SquarePrefab", threshold |-> 90]
    ELSE [found |-> FALSE, prefab_name |-> "", threshold |-> 0]

\* `except Exception as e`: context.abort(INTERNAL, "Internal error: ...").
Abort(r, e) ==
    /\ hpc' = [hpc EXCEPT ![r] = "replied"]
    /\ reply' = [reply EXCEPT ![r] =
           ShapeRecognitionClient("abort", FALSE, "",
                                  <<"Internal error:">> \o str(e))]

\* The handler returns a ShapeRecognitionClient.
Respond(r, success, prefab_name, error_message) ==
    /\ hpc' = [hpc EXCEPT ![r] = "replied"]
    /\ reply' = [reply EXCEPT ![r] =
           ShapeRecognitionClient("response", success, prefab_name,
                                  error_message)]

\* ProcessDrawing from its call to the await of get_available_shapes:
\* use_ai check, extract_features, creation of the insert_features
\* coroutine (which does not run before it is awaited).
HandlerBegin(r) ==
    /\ hpc[r] = "idle"
    /\ \A q \in Requests : q < r => hpc[q] = "replied"
    /\ LoopIdle
    /\ \E use_ai \in BOOLEAN, extracted \in BOOLEAN :
         IF ~use_ai
         THEN /\ hpc' = [hpc EXCEPT ![r] = "replied"]
              /\ reply' = [reply EXCEPT ![r] =
                     ShapeRecognitionClient("none", FALSE, "", <<>>)]
              /\ UNCHANGED save_task
         ELSE IF ~extracted
         THEN /\ Abort(r, Exception("IndexError", <<"list index out of range">>))
              /\ UNCHANGED save_task
         ELSE /\ save_task' = [save_task EXCEPT ![r] = "created"]
              /\ hpc' = [hpc EXCEPT ![r] = "shapes"]
              /\ UNCHANGED reply
    /\ UNCHANGED <<ai_task, shape_features>>
    /\ UNCHANGED <<adapter, current_model, pc, locals, ret, sinks>>

\* get_available_shapes completes: on success the process_drawing coroutine
\* is created and asyncio.gather schedules both coroutines as tasks; on an
\* exception the handler aborts.
ShapesDone(r) ==
    /\ hpc[r] = "shapes"
    /\ LoopIdle
    /\ \E ok \in BOOLEAN :
         IF ok
         THEN /\ ai_task' = [ai_task EXCEPT ![r] = "scheduled"]
              /\ save_task' = [save_task EXCEPT ![r] = "scheduled"]
              /\ hpc' = [hpc EXCEPT ![r] = "gather"]
              /\ UNCHANGED reply
         ELSE /\ Abort(r, SinkError)
              /\ UNCHANGED <<ai_task, save_task>>
    /\ UNCHANGED shape_features
    /\ UNCHANGED <<adapter, current_model, pc, locals, ret, sinks>>

\* A step of the process_drawing task gather scheduled.
AiTaskStep(r) ==
    /\ ai_task[r] = "scheduled"
    /\ \/ Start(r)
       \/ VendorReturn(r)
       \/ InsertResultDone(r)
       \/ InsertDetailDone(r)
       \/ InsertErrorDone(r)
    /\ UNCHANGED handler

\* The insert_features task completes: the row is stored, or
\* execute_update raises.
SaveTaskDone(r) ==
    /\ save_task[r] = "scheduled"
    /\ LoopIdle
    /\ \E ok \in BOOLEAN :
         IF ok
         THEN /\ shape_features' = shape_features (+) SetToBag({
                    [feature_id |-> uuid4(r, "feature"), drawing_id |-> r]})
              /\ save_task' = [save_task EXCEPT ![r] = "done"]
         ELSE /\ save_task' = [save_task EXCEPT ![r] = "failed"]
              /\ UNCHANGED shape_features
    /\ UNCHANGED <<hpc, ai_task, reply>>
    /\ UNCHANGED <<adapter, current_model, pc, locals, ret, sinks>>

\* The process_drawing task has finished / has finished with an exception.
AiTaskDone(r) == ai_task[r] = "scheduled" /\ pc[r] = "done"

AiTaskRaised(r) == AiTaskDone(r) /\ ret[r].kind = "raised"

\* `await asyncio.gather(ai_task, save_task)` resumes the handler: with
\* both results when both tasks are done, with the exception of the first
\* task that raised otherwise (the other task is left running).  Then
\* `if not ai_result` (never true of a protobuf message) and the await of
\* get_shape_info_by_id.
GatherDone(r) ==
    /\ hpc[r] = "gather"
    /\ LoopIdle
    /\ IF save_task[r] = "failed" THEN Abort(r, SinkError)
       ELSE IF AiTaskRaised(r) THEN Abort(r, ret[r].exc)
       ELSE /\ AiTaskDone(r)
            /\ save_task[r] = "done"
            /\ IF Falsy(ret[r].value)
               THEN Respond(r, FALSE, "Unknown", <<"No valid results">>)
               ELSE hpc' = [hpc EXCEPT ![r] = "shape_info"] /\ UNCHANGED reply
    /\ UNCHANGED <<save_task, ai_task, shape_features>>
    /\ UNCHANGED <<adapter, current_model, pc, locals, ret, sinks>>

\* get_shape_info_by_id completes and the handler maps the AI result to
\* its response (or the lookup raises and the handler aborts).
ShapeInfoDone(r) ==
    /\ hpc[r] = "shape_info"
    /\ LoopIdle
    /\ \E ok \in BOOLEAN :
         LET ai_result == ret[r].value
             shape_info == get_shape_info_by_id(ai_result.shape_id)
         IN  IF ~ok THEN Abort(r, SinkError)
             ELSE IF ~shape_info.found
             THEN Respond(r, FALSE, "Unknown",
                          <<"Shape info not found for the recognized shape">>)
             ELSE IF ai_result.success /\ ai_result.score >= shape_info.threshold
             THEN Respond(r, TRUE, shape_info.prefab_name, <<>>)
             ELSE IF ai_result.success
             THEN Respond(r, TRUE, "Unknown",
                          <<"Recognized but below threshold">>)
             ELSE Respond(r, FALSE, "Unknown", ai_result.error_message)
    /\ UNCHANGED <<save_task, ai_task, shape_features>>
    /\ UNCHANGED <<adapter, current_model, pc, locals, ret, sinks>>

NextGrpc ==
    /\ \E r \in Requests :
          \/ HandlerBegin(r)
          \/ ShapesDone(r)
          \/ AiTaskStep(r)
          \/ SaveTaskDone(r)
          \/ GatherDone(r)
          \/ ShapeInfoDone(r)
    /\ UNCHANGED <<classifier, extractor, database>>

SpecGrpc == Init /\ [][NextGrpc]_vars

(***************************************************************************)
(* service_manager.py: classify_drawing on its own                         *)
(***************************************************************************)

\* The server as AIServiceManager.__init__ builds it, with no request: the
\* state of the pipeline while a function is studied by itself.
ServerIdle ==
    /\ provider = "OpenAI"
    /\ api_key = TRUE
    /\ enabled = TRUE
    /\ models = <<"m1">>
    /\ current_model = InitialCurrentModel("OpenAI", <<"m1">>)
    /\ services = Groups
    /\ NoRequests
    /\ HandlerInit
    /\ PoolUnset

\* global_features.total_points values: they give, over the lengths below,
\* the densities 0, 6, 6.01, 7, 50, 50.01, 51, 81, 82 and 83.
PointCounts == {0, 6, 7, 50, 51, 81, 82, 83, 600, 601, 5001}

\* global_features.total_strokes values on both sides of 2, 4 and 16.
StrokeCounts == {0, 1, 2, 3, 4, 5, 16, 17}

\* Stroke total_length lists (in thousandths): no stroke, a total of 0,
\* 0.1, 0.199, 0.2, 1.0 and 100.0, some of them over two strokes.
LengthLists ==
    { <<>>, <<0>>, <<100>>, <<100, 99>>, <<100, 100>>, <<1000>>,
      <<400, 600>>, <<100000>> }

\* Feature dictionaries classify_drawing is given; in the last ones a
\* stroke's total_length is None.
ClassifyInputs ==
    { Features(TRUE, tp, ts, ls, TRUE) :
          tp \in PointCounts, ts \in StrokeCounts, ls \in LengthLists }
      \cup { Features(TRUE, tp, 1, <<0>>, FALSE) : tp \in PointCounts }

ClassifyInit ==
    /\ features \in ClassifyInputs
    /\ classified = "pending"
    /\ ExtractorOff
    /\ ServerIdle

\* classify_drawing(features) is called.
Classify ==
    /\ classified = "pending"
    /\ classified' = LET c == classify_drawing(features)
                     IN  IF c.raised THEN "raised" ELSE c.group
    /\ UNCHANGED <<features, extractor, handler, database>>
    /\ UNCHANGED <<adapter, current_model, pc, locals, ret, sinks>>

NextClassify == Classify

SpecClassify == ClassifyInit /\ [][NextClassify]_vars

(***************************************************************************)
(* feature_extractor.py: calculate_stroke_features on its own              *)
(***************************************************************************)

StrokeInit ==
    /\ positions \in PositionLists
    /\ epsilon \in Epsilons
    /\ stroke = [status |-> "pending", features |-> NoStrokeFeatures]
    /\ DrawingOff
    /\ ClassifierOff
    /\ ServerIdle

\* calculate_stroke_features(positions) is called.
CalculateStroke ==
    /\ stroke.status = "pending"
    /\ stroke' = calculate_stroke_features(positions, epsilon)
    /\ UNCHANGED <<positions, epsilon, draw_lines, drawing_features>>
    /\ UNCHANGED <<classifier, handler, database>>
    /\ UNCHANGED <<adapter, current_model, pc, locals, ret, sinks>>

NextStroke == CalculateStroke

SpecStroke == StrokeInit /\ [][NextStroke]_vars

(***************************************************************************)
(* feature_extractor.py: extract_features over a whole drawing             *)
(***************************************************************************)

ExtractInit ==
    /\ draw_lines \in Drawings
    /\ epsilon \in Epsilons
    /\ drawing_features = [NotExtracted EXCEPT !.status = "pending"]
    /\ positions = <<>>
    /\ stroke = [status |-> "off", features |-> NoStrokeFeatures]
    /\ ClassifierOff
    /\ ServerIdle

\* extract_features(drawing_data) is called.
ExtractFeatures ==
    /\ drawing_features.status = "pending"
    /\ drawing_features' = extract_features(draw_lines, epsilon)
    /\ UNCHANGED <<positions, epsilon, stroke, draw_lines>>
    /\ UNCHANGED <<classifier, handler, database>>
    /\ UNCHANGED <<adapter, current_model, pc, locals, ret, sinks>>

NextExtract == ExtractFeatures

SpecExtract == ExtractInit /\ [][NextExtract]_vars

(***************************************************************************)
(* database/connection.py: get_pool and close_pool                         *)
(***************************************************************************)

PoolInit ==
    /\ ServerIdle
    /\ ClassifierOff
    /\ ExtractorOff

\* A coroutine calls get_pool: `if cls._pool is None` and, for None, the
\* call of aiomysql.create_pool, whose await suspends the coroutine;
\* otherwise `return cls._pool`.
GetPool(c) ==
    /\ gpc[c] \in {"idle", "returned", "raised"}
    /\ IF pool = NoPool
       THEN /\ made + Cardinality({d \in Callers : gpc[d] = "creating"}) < MaxPools
            /\ gpc' = [gpc EXCEPT ![c] = "creating"]
            /\ got' = [got EXCEPT ![c] = NoPool]
       ELSE /\ gpc' = [gpc EXCEPT ![c] = "returned"]
            /\ got' = [got EXCEPT ![c] = pool]
    /\ UNCHANGED <<pool, made, epoch, closing>>

\* create_pool completes for c: `cls._pool = await ...; return cls._pool`
\* without a suspension in between, or the exception is logged and raised.
CreatePoolDone(c) ==
    /\ gpc[c] = "creating"
    /\ \E ok \in BOOLEAN :
         IF ok
         THEN /\ made' = made + 1
              /\ pool' = made + 1
              /\ epoch' = epoch \cup {made + 1}
              /\ gpc' = [gpc EXCEPT ![c] = "returned"]
              /\ got' = [got EXCEPT ![c] = made + 1]
         ELSE /\ gpc' = [gpc EXCEPT ![c] = "raised"]
              /\ UNCHANGED <<pool, made, epoch, got>>
    /\ UNCHANGED closing

\* close_pool is called: `if cls._pool:` then close() and the await of
\* wait_closed(); with no pool it returns at once.
ClosePoolCall ==
    /\ closing = "idle"
    /\ epoch' = {}
    /\ closing' = IF pool # NoPool THEN "wait_closed" ELSE "idle"
    /\ UNCHANGED <<pool, gpc, got, made>>

\* wait_closed() completes: `cls._pool = None`.
ClosePoolDone ==
    /\ closing = "wait_closed"
    /\ pool' = NoPool
    /\ closing' = "idle"
    /\ UNCHANGED <<gpc, got, made, epoch>>

NextPool ==
    /\ \/ \E c \in Callers : GetPool(c)
       \/ \E c \in Callers : CreatePoolDone(c)
       \/ ClosePoolCall
       \/ ClosePoolDone
    /\ UNCHANGED <<handler, classifier, extractor>>
    /\ UNCHANGED <<adapter, current_model, pc, locals, ret, sinks>>

SpecPool == PoolInit /\ [][NextPool]_vars

(***************************************************************************)
(* Properties                                                              *)
(***************************************************************************)

Done(r) == pc[r] = "done"

Returned(r) == ret[r].kind = "returned"

\* What process_drawing returned.
Out(r) == ret[r].value

\* name of the adapter's model_name property in the current state
AdapterModelName == model_name(provider, current_model)

\* Rows of a table whose column key holds id.
Rows(table, key, id) == {x \in BagToSet(table) : x[key] = id}

\* The table holds one row with that id, and one copy of it.
ExactlyOne(table, key, id) ==
    /\ Cardinality(Rows(table, key, id)) = 1
    /\ \A x \in Rows(table, key, id) : CopiesIn(x, table) = 1

\* Rows request r wrote.
RowsOf(table, r) == {x \in BagToSet(table) : x.drawing_id = r}

\* recognize_shape's handler ran for r (a sink write or the prompt raised).
HandlerEntered(r) == exc[r] # NoException

\* parse_response raised inside and answered with an error response.
ParseRaised(r) == response[r].kind = "text" /\ ~result[r].success

\* The model whose call gave r its text.
Producer(r) == calls[r][Len(calls[r])].model

NoFailure(c) == \A k \in 1..Len(c) : c[k].outcome \notin {"raised", "empty"}

AllFailed(c) == \A k \in 1..Len(c) : c[k].outcome \in {"raised", "empty"}

----------------------------------------------------------------------------
\* C1: process_drawing never raises: whatever step fails (classification,
\* adapter lookup, prompt building, vendor call, parsing, a sink write), a
\* finished call has returned a RecognitionResult, and a result with
\* success = false carries a non-empty error_message.
C1_NeverRaises ==
    \A r \in Requests :
        Done(r) =>
            /\ Returned(r)
            /\ (~Out(r).success => Out(r).error_message # <<>>)

----------------------------------------------------------------------------
----------------------------------------------------------------------------
\* C3: with the model list [m1, m2], when the call to m1 raised and m2
\* answered valid JSON naming a catalogue shape (and no sink write raised),
\* process_drawing returns a success with m2's shape_id, score, reason and
\* model name, and the error sink holds nothing of the request.
C3_Fallback ==
    \A r \in Requests :
        (/\ Done(r)
         /\ Len(calls[r]) = 2
         /\ calls[r][1].outcome = "raised"
         /\ calls[r][2].outcome = "text"
         /\ response[r] = ValidText
         /\ InCatalog(shape_infos[r], response[r].shape_id)
         /\ ~HandlerEntered(r)) =>
            /\ Returned(r)
            /\ Out(r).success
            /\ Out(r).shape_id = response[r].shape_id
            /\ Out(r).score = response[r].score
            /\ Out(r).reasoning = response[r].reason
            /\ Out(r).model_name = <<provider, models[2]>>
            /\ calls[r][1].model = models[1]
            /\ calls[r][2].model = models[2]
            /\ RowsOf(errors, r) = {}

C3_Witness ==
    \E r \in Requests :
        /\ Done(r) /\ Returned(r) /\ Out(r).success
        /\ Len(calls[r]) = 2
        /\ calls[r][1].outcome = "raised"
        /\ response[r] = ValidText

----------------------------------------------------------------------------
\* C4: the vendor calls of one recognize call follow the model list: the
\* k-th call goes to the k-th model, so no model is called twice; only the
\* last call can be in flight or have given a text, so calls never overlap
\* and none follows a non-empty response.
C4_CallOrder ==
    \A r \in Requests :
        LET c == calls[r] IN
        /\ Len(c) <= Len(models)
        /\ \A k \in 1..Len(c) :
              /\ c[k].idx = k
              /\ c[k].model = models[k]
              /\ k < Len(c) => c[k].outcome \in {"raised", "empty"}
        /\ \A j, k \in 1..Len(c) : j # k => c[j].model # c[k].model
        /\ Cardinality({k \in 1..Len(c) : c[k].outcome = "pending"}) <= 1
        /\ (pc[r] # "call") => \A k \in 1..Len(c) : c[k].outcome # "pending"

C4_Witness ==
    \E r \in Requests :
        /\ Len(calls[r]) = 2
        /\ calls[r][1].outcome = "raised"
        /\ calls[r][2].outcome = "text"
        /\ Done(r)

----------------------------------------------------------------------------
\* C5: when call_ai_api ran and every model it called raised or returned an
\* empty text, process_drawing returns the failure "No response from AI
\* service", nothing is raised, and the request wrote no result, detail or
\* error row.
C5_NoResponse ==
    \A r \in Requests :
        (/\ Done(r)
         /\ calls[r] # <<>>
         /\ AllFailed(calls[r])) =>
            /\ Returned(r)
            /\ ret[r].via = "recognize"
            /\ ~Out(r).success
            /\ Out(r).error_message = <<"No response from AI service">>
            /\ RowsOf(results, r) = {}
            /\ RowsOf(details, r) = {}
            /\ RowsOf(errors, r) = {}

C5_Witness ==
    \E r \in Requests :
        /\ Done(r)
        /\ Len(calls[r]) = 2
        /\ calls[r][1].outcome = "raised"
        /\ calls[r][2].outcome = "empty"

----------------------------------------------------------------------------
\* The text r got is well-formed JSON for the adapter and names a shape the
\* catalogue lacks.
UnknownShape(r) ==
    /\ response[r].kind = "text"
    /\ response[r].valid_json
    /\ response[r].fenced => StripsFence(provider)
    /\ "shape_id" \in response[r].has
    /\ \A i \in 1..Len(shape_infos[r]) : shape_infos[r][i] # response[r].shape_id

\* C6: a well-formed vendor response whose shape_id is in no catalogue entry
\* makes parse_response answer success = false with an error_message that
\* names the id; the call never ends in success or in an exception, and the
\* failure it returns names the id whenever no sink write raised.
C6_UnknownShapeId ==
    \A r \in Requests :
        UnknownShape(r) =>
            /\ ~result[r].success
            /\ result[r].error_message = <<"Invalid shape ID:", response[r].shape_id>>
            /\ Done(r) => Returned(r) /\ ~Out(r).success
            /\ (Done(r) /\ ~HandlerEntered(r)) =>
                  Out(r).error_message = <<"Invalid shape ID:", response[r].shape_id>>

C6_Witness ==
    \E r \in Requests :
        /\ UnknownShape(r)
        /\ response[r].shape_id = "circle"
        /\ Done(r) /\ ~HandlerEntered(r)

----------------------------------------------------------------------------
\* The message of the exception json.loads, the field lookups or int()
\* raise for a text that is no JSON, lacks a field or has an unusable score.
ParseErrorMessage(t) ==
    IF ~t.valid_json THEN <<"Expecting value">>
    ELSE IF "shape_id" \notin t.has THEN <<"'shape_id'">>
    ELSE IF "score" \notin t.has THEN <<"'score'">>
    ELSE IF ~t.score_ok THEN <<"invalid literal for int()">>
    ELSE <<"'reason'">>

\* The text r got is not JSON, or lacks a field, or has a score int() rejects
\* (its shape_id, when it has one, is in the catalogue).
Unparsable(r) ==
    /\ response[r].kind = "text"
    /\ \/ ~response[r].valid_json
       \/ /\ response[r].has # Keys \/ ~response[r].score_ok
          /\ "shape_id" \in response[r].has =>
                InCatalog(shape_infos[r], response[r].shape_id)

----------------------------------------------------------------------------
\* C8: when process_drawing returned success = true with result_id i, the
\* results table holds exactly one row with result_id i and the details
\* table exactly one, both with the returned shape_id; the detail row has
\* the returned score and reasoning, the adapter's model name and the raw
\* vendor text; and at no time is there a detail row without its result row.
C8_SuccessRows ==
    /\ \A r \in Requests :
          (Done(r) /\ Returned(r) /\ Out(r).success) =>
              LET id == Out(r).result_id IN
              /\ ExactlyOne(results, "result_id", id)
              /\ ExactlyOne(details, "result_id", id)
              /\ \A x \in Rows(results, "result_id", id) :
                    x.shape_id = Out(r).shape_id /\ x.success
              /\ \A x \in Rows(details, "result_id", id) :
                    /\ x.shape_id = Out(r).shape_id
                    /\ x.success
                    /\ x.score = Out(r).score
                    /\ x.reasoning = Out(r).reasoning
                    /\ x.model_name = Out(r).model_name
                    /\ x.model_name = <<provider, Producer(r)>>
                    /\ x.api_response = dumps_str(response[r])
    /\ \A d \in BagToSet(details) :
          \E x \in BagToSet(results) : x.result_id = d.result_id

C8_Witness ==
    \E r \in Requests :
        /\ Done(r) /\ Returned(r) /\ Out(r).success
        /\ response[r] = FencedText
        /\ RowsOf(details, r) # {}

----------------------------------------------------------------------------
\* The last request that made a vendor call (0 when none did); requests run
\* in the order of their numbers under SpecSeq.
LastCaller ==
    IF \A r \in Requests : calls[r] = <<>> THEN 0
    ELSE CHOOSE r \in Requests :
            /\ calls[r] # <<>>
            /\ \A q \in Requests : calls[q] # <<>> => q <= r

\* No request is between its call and its return.
Quiescent == \A r \in Requests : pc[r] \in {"idle", "done"}

----------------------------------------------------------------------------
\* C10: requests running side by side on one adapter do not read each
\* other's writes: the model_name in a request's successful result and in
\* its detail row is the model that produced that request's own response.
C10_NoSharedState ==
    \A r \in Requests :
        /\ (Done(r) /\ Returned(r) /\ Out(r).success) =>
              Out(r).model_name = <<provider, Producer(r)>>
        /\ \A d \in RowsOf(details, r) :
              d.model_name = <<provider, Producer(r)>>

----------------------------------------------------------------------------
\* The handler of r extracted the features (it created the insert_features
\* coroutine) and has answered its client.
AnsweredAfterExtraction(r) == hpc[r] = "replied" /\ save_task[r] # "none"

\* C11: a ProcessDrawing handler that extracted the features answers its
\* client (with a response or an abort) only after the feature-persistence
\* task and the classification task were both started and have both
\* completed.
C11_BothTasksCompleted ==
    \A r \in Requests :
        AnsweredAfterExtraction(r) =>
            /\ save_task[r] \in {"done", "failed"}
            /\ AiTaskDone(r)

----------------------------------------------------------------------------
\* total_length of the reference rule, in thousandths.
RefLength(f) == SumLengths(f.lengths)

\* point_density > k and point_density < k for the reference rule's
\* point_density = total_points / total_length if total_length > 0 else 0,
\* with k in hundredths.
DensityAbove(f, k) ==
    IF RefLength(f) > 0
    THEN 100000 * f.total_points > k * RefLength(f)
    ELSE 0 > k

DensityBelow(f, k) ==
    IF RefLength(f) > 0
    THEN 100000 * f.total_points < k * RefLength(f)
    ELSE 0 < k

DensityIs(f, k) == ~DensityAbove(f, k) /\ ~DensityBelow(f, k)

\* The reference rule.
RefBoth(f) ==
    /\ DensityAbove(f, 600) /\ DensityBelow(f, 8200)
    /\ 4 <= f.total_strokes /\ f.total_strokes <= 16

RefB(f) ==
    DensityAbove(f, 5000) \/ f.total_strokes <= 2 \/ RefLength(f) < 200

\* C12: for every numeric features value classify_drawing answers
\* GROUP_BOTH iff 6 < point_density < 82 and 4 <= total_strokes <= 16,
\* otherwise GROUP_B iff point_density > 50 or total_strokes <= 2 or
\* total_length < 0.2, otherwise GROUP_A; density 6 is never GROUP_BOTH,
\* density 6.01 with 4 strokes is GROUP_BOTH, total_strokes <= 2 and
\* density >= 82 are always GROUP_B.
C12_ClassifyRule ==
    (classified \notin {"off", "pending"} /\ features.numeric) =>
        /\ classified \in Groups
        /\ classified = "BOTH" <=> RefBoth(features)
        /\ classified = "B" <=> (~RefBoth(features) /\ RefB(features))
        /\ classified = "A" <=> (~RefBoth(features) /\ ~RefB(features))
        /\ DensityIs(features, 600) => classified # "BOTH"
        /\ (DensityIs(features, 601) /\ features.total_strokes = 4) =>
              classified = "BOTH"
        /\ features.total_strokes <= 2 => classified = "B"
        /\ ~DensityBelow(features, 8200) => classified = "B"

\* C12 witness: density 6.01 with 4 strokes was classified GROUP_BOTH.
C12_Witness ==
    /\ classified = "BOTH"
    /\ features.total_points = 601
    /\ features.lengths = <<100000>>
    /\ features.total_strokes = 4

----------------------------------------------------------------------------
\* C13: every result with success = true that an adapter's parse_response
\* built, and every successful result process_drawing returned, has a score
\* in 0..100, whatever score the vendor's text holds.
C13_ScoreRange ==
    \A r \in Requests :
        /\ result[r].success => result[r].score \in 0..100
        /\ (Done(r) /\ Returned(r) /\ Out(r).success) => Out(r).score \in 0..100

----------------------------------------------------------------------------
\* C14: for each adapter, a valid result object wrapped in a ```json fence
\* is parsed to the same success, shape_id, score and reasoning as the same
\* object without the fence.
C14_FenceEquivalence ==
    \A r \in Requests :
        (response[r].kind = "text" /\ response[r].fenced /\ response[r].valid_json) =>
            LET bare == parse_response(provider, [response[r] EXCEPT !.fenced = FALSE],
                                       shape_infos[r], result[r].result_id,
                                       result[r].model_name, result[r].result_id)
            IN  /\ result[r].success = bare.success
                /\ result[r].shape_id = bare.shape_id
                /\ result[r].score = bare.score
                /\ result[r].reasoning = bare.reasoning

----------------------------------------------------------------------------
----------------------------------------------------------------------------
\* C16: when the services dictionary has no adapter for the group
\* classify_drawing chose, process_drawing returns (does not raise) a
\* failure whose error_message names the group, makes no vendor call and
\* writes no row to any table.
C16_UnboundGroup ==
    \A r \in Requests :
        (group[r] \in Groups /\ group[r] \notin services /\ pc[r] # "idle") =>
            /\ Done(r) /\ Returned(r)
            /\ ~Out(r).success
            /\ Out(r).error_message = <<"No AI service configured for group", group[r]>>
            /\ calls[r] = <<>>
            /\ RowsOf(results, r) = {} /\ RowsOf(details, r) = {}
            /\ RowsOf(errors, r) = {}

\* C16 witness: group A was chosen while no adapter is bound to it.
C16_Witness ==
    \E r \in Requests :
        /\ Done(r)
        /\ group[r] = "A" /\ "A" \notin services
        /\ Out(r).error_message = <<"No AI service configured for group", "A">>

----------------------------------------------------------------------------
\* calculate_stroke_features has returned for the positions.
StrokeReturned == stroke.status = "returned"

\* out can be had from in by deleting elements.
RECURSIVE IsSubsequence(_, _)
IsSubsequence(out, in) ==
    IF out = <<>> THEN TRUE
    ELSE IF in = <<>> THEN FALSE
    ELSE IF Head(out) = Head(in) THEN IsSubsequence(Tail(out), Tail(in))
    ELSE IsSubsequence(out, Tail(in))

\* C17: for a non-empty point sequence and epsilon >= 0 the output of
\* douglas_peucker is an order-preserving subsequence of the input that
\* holds the first and the last input point, an input of at most 2 points
\* is returned unchanged, and points_count is len(simplified_points).
C17_Subsequence ==
    StrokeReturned =>
        LET out == stroke.features.simplified_points IN
        /\ out = douglas_peucker(positions, epsilon)
        /\ out # <<>>
        /\ IsSubsequence(out, positions)
        /\ out[1] = positions[1]
        /\ out[Len(out)] = positions[Len(positions)]
        /\ Len(positions) <= 2 => out = positions
        /\ Len(positions) > 2 => Len(out) >= 2
        /\ stroke.features.points_count = Len(out)

\* C17 witness: of four points one interior point was dropped and the
\* other kept.
C17_Witness ==
    /\ StrokeReturned
    /\ Len(positions) = 4
    /\ stroke.features.points_count = 3
    /\ stroke.features.simplified_points[2] \in {positions[2], positions[3]}

----------------------------------------------------------------------------
\* The distance of the i-th position to the line from the first to the
\* last position.
DistanceOf(i) ==
    distance_point_to_line(positions[i], positions[1], positions[Len(positions)])

\* Interior positions farther than epsilon from that line.
BeyondEpsilon ==
    {i \in 2..Len(positions) - 1 : Greater(DistanceOf(i), Squared(epsilon * epsilon, 1))}

\* The earliest interior position of maximum distance.
SplitIndex ==
    CHOOSE i \in 2..Len(positions) - 1 :
        /\ \A j \in 2..Len(positions) - 1 : ~Greater(DistanceOf(j), DistanceOf(i))
        /\ \A j \in 2..i - 1 : Greater(DistanceOf(i), DistanceOf(j))

\* C18: for more than 2 points douglas_peucker returns [first, last] when
\* no interior point is farther than epsilon from the first-to-last line;
\* otherwise it splits at the interior point of maximum distance (the
\* earliest on ties) and returns simplify(points up to it) followed by
\* simplify(points from it on), the split point appearing once.
C18_SplitRule ==
    (StrokeReturned /\ Len(positions) > 2) =>
        LET out == stroke.features.simplified_points
            n == Len(positions)
        IN  IF BeyondEpsilon = {}
            THEN out = <<positions[1], positions[n]>>
            ELSE LET k == SplitIndex
                     left == douglas_peucker(SubSeq(positions, 1, k), epsilon)
                     right == douglas_peucker(SubSeq(positions, k, n), epsilon)
                 IN  /\ out = left \o Tail(right)
                     /\ Len(out) = Len(left) + Len(right) - 1
                     /\ out[Len(left)] = positions[k]
                     /\ left[Len(left)] = positions[k]
                     /\ right[1] = positions[k]

\* C18 witness: two interior points at the same distance beyond epsilon;
\* the stroke was split at the earlier one.
C18_Witness ==
    /\ StrokeReturned
    /\ Len(positions) = 4
    /\ BeyondEpsilon = {2, 3}
    /\ ~Greater(DistanceOf(2), DistanceOf(3))
    /\ ~Greater(DistanceOf(3), DistanceOf(2))
    /\ SplitIndex = 2
    /\ stroke.features.simplified_points[2] = positions[2]

----------------------------------------------------------------------------
\* p lies on the segment from a to b.
OnSegment(p, a, b) ==
    LET ux == b.x - a.x  uy == b.y - a.y  uz == b.z - a.z
        vx == p.x - a.x  vy == p.y - a.y  vz == p.z - a.z
        dot == ux * vx + uy * vy + uz * vz
    IN  /\ uy * vz - uz * vy = 0
        /\ uz * vx - ux * vz = 0
        /\ ux * vy - uy * vx = 0
        /\ 0 <= dot
        /\ dot <= Dist2(a, b)

\* Some original position lies on no segment of the simplified path: it
\* was dropped and is off the straight path.
DroppedOffPath(ps, simplified) ==
    \E i \in 1..Len(ps) :
        /\ \A k \in 1..Len(simplified) : ps[i] # simplified[k]
        /\ \A k \in 1..Len(simplified) - 1 :
              ~OnSegment(ps[i], simplified[k], simplified[k + 1])

\* C19: total_length, bounding_box, start_point, end_point and is_closed
\* are computed from the original positions only: they are what the
\* original positions give and the same for every epsilon; and when
\* simplification dropped a point that is off the straight path,
\* total_length differs from the length of the simplified path.
C19_OriginalPositionsOnly ==
    StrokeReturned =>
        LET f == stroke.features IN
        /\ f.total_length = PathLength(positions)
        /\ f.bounding_box = [width |-> Extent(positions, "x"),
                             height |-> Extent(positions, "y"),
                             depth |-> Extent(positions, "z")]
        /\ f.start_point = positions[1]
        /\ f.end_point = positions[Len(positions)]
        /\ \A e \in Epsilons \ {epsilon} :
              LET g == calculate_stroke_features(positions, e).features IN
              /\ g.total_length = f.total_length
              /\ g.bounding_box = f.bounding_box
              /\ g.start_point = f.start_point
              /\ g.end_point = f.end_point
              /\ g.is_closed = f.is_closed
        /\ DroppedOffPath(positions, f.simplified_points) =>
              f.total_length # PathLength(f.simplified_points)

\* C19 witness: a point off the path was dropped, the length is not that
\* of the simplified path, and another epsilon keeps more points.
C19_Witness ==
    /\ StrokeReturned
    /\ DroppedOffPath(positions, stroke.features.simplified_points)
    /\ stroke.features.total_length # PathLength(stroke.features.simplified_points)
    /\ \E e \in Epsilons :
          calculate_stroke_features(positions, e).features.points_count
              > stroke.features.points_count

----------------------------------------------------------------------------
\* C20: calculate_stroke_features never raises: for an empty positions
\* sequence it returns an empty feature set, for a non-empty one a complete
\* feature set, and for a single point total_length 0, a bounding box of
\* width = height = depth = 0, points_count 1 and is_closed = true.
C20_NeverRaises ==
    stroke.status \notin {"off", "pending"} =>
        /\ stroke.status = "returned"
        /\ positions = <<>> => stroke.features = NoStrokeFeatures
        /\ Len(positions) = 1 =>
              /\ stroke.features.total_length = 0
              /\ stroke.features.bounding_box =
                    [width |-> 0, height |-> 0, depth |-> 0]
              /\ stroke.features.points_count = 1
              /\ stroke.features.is_closed

----------------------------------------------------------------------------
\* The squared distance between the first and the last original position.
EndsApart2 == Dist2(positions[1], positions[Len(positions)])

\* C21: for every non-empty stroke is_closed is true iff the 3D Euclidean
\* distance between the first and the last original point is strictly less
\* than 0.05 (true at 0.049, false at 0.05 and at 0.051), whatever the
\* intermediate points and the simplification.
C21_ClosedIffNear ==
    StrokeReturned =>
        /\ stroke.features.is_closed <=> EndsApart2 < 50 * 50
        /\ EndsApart2 = 49 * 49 => stroke.features.is_closed
        /\ EndsApart2 = 50 * 50 => ~stroke.features.is_closed
        /\ EndsApart2 = 51 * 51 => ~stroke.features.is_closed
        /\ \A e \in Epsilons \ {epsilon} :
              calculate_stroke_features(positions, e).features.is_closed
                  = stroke.features.is_closed

\* C21 witness: a stroke whose ends are exactly 0.05 apart, 0.04 of it in
\* the plane, with intermediate points of which one was dropped; not closed.
C21_Witness ==
    /\ StrokeReturned
    /\ Len(positions) = 4
    /\ stroke.features.points_count < 4
    /\ EndsApart2 = 50 * 50
    /\ positions[1].z # positions[4].z
    /\ ~stroke.features.is_closed

----------------------------------------------------------------------------
\* extract_features was given at least one line and no line without a point.
DrawnWithPoints ==
    /\ drawing_features.status \notin {"off", "pending"}
    /\ draw_lines # <<>>
    /\ \A i \in 1..Len(draw_lines) : draw_lines[i] # <<>>

\* The y-coordinates of the strokes' simplified points.
SimplifiedYs ==
    UNION { { drawing_features.strokes[i].simplified_points[k].y :
                k \in 1..Len(drawing_features.strokes[i].simplified_points) } :
            i \in 1..Len(drawing_features.strokes) }

RECURSIVE PointsCounted(_)
PointsCounted(strokes) ==
    IF strokes = <<>> THEN 0
    ELSE Head(strokes).points_count + PointsCounted(Tail(strokes))

\* C22: for a non-empty stroke list with at least one point
\* calculate_global_features does not divide by zero: aspect_ratio is 0
\* when all flattened simplified points share one y-coordinate and
\* width / height otherwise; total_strokes is the number of strokes and
\* total_points the sum of the strokes' points_count.
C22_GlobalFeatures ==
    DrawnWithPoints =>
        LET g == drawing_features.global_features
            all_points == Flatten(drawing_features.strokes)
        IN  /\ drawing_features.status = "returned"
            /\ g.total_strokes = Len(draw_lines)
            /\ g.total_points = PointsCounted(drawing_features.strokes)
            /\ Cardinality(SimplifiedYs) = 1 => g.aspect_ratio = Divide(0, 1)
            /\ Cardinality(SimplifiedYs) > 1 =>
                  /\ g.aspect_ratio # ZeroDivisionError
                  /\ g.aspect_ratio.n * Extent(all_points, "y")
                        = g.aspect_ratio.d * Extent(all_points, "x")

\* C22 witness: two lines; simplification dropped the only point off the
\* x-axis, so the height is 0 although a drawn position has another y.
C22_Witness ==
    /\ DrawnWithPoints
    /\ drawing_features.status = "returned"
    /\ Len(draw_lines) = 2
    /\ \E i \in 1..2 : \E k \in 1..Len(draw_lines[i]) : draw_lines[i][k].y # 0
    /\ Cardinality(SimplifiedYs) = 1
    /\ drawing_features.global_features.aspect_ratio = Divide(0, 1)
    /\ drawing_features.global_features.total_points = 4

----------------------------------------------------------------------------
\* z-coordinates given to the positions in place of their own.
Heights == {0, 40}

\* The points with their z-coordinates replaced, x and y kept.
WithZ(points, zs) ==
    [i \in 1..Len(points) |-> Point3D(points[i].x, points[i].y, zs[i])]

\* The x and y of the points.
XY(points) == [i \in 1..Len(points) |-> <<points[i].x, points[i].y>>]

\* C23: the distance used by simplification is planar: changing only the
\* z-coordinates of the points does not change which points
\* douglas_peucker retains.
C23_PlanarDistance ==
    StrokeReturned =>
        \A zs \in [1..Len(positions) -> Heights] :
            XY(douglas_peucker(WithZ(positions, zs), epsilon))
                = XY(stroke.features.simplified_points)

----------------------------------------------------------------------------
\* C24: no result row and no detail row is written for a call whose
\* returned result has success = false, and every row written with
\* success = true belongs to a call that returned success = true with the
\* row's shape_id.
C24_RowsReflectOutcome ==
    \A r \in Requests :
        Done(r) =>
            /\ (Returned(r) /\ ~Out(r).success) =>
                  RowsOf(results, r) = {} /\ RowsOf(details, r) = {}
            /\ \A x \in RowsOf(results, r) \cup RowsOf(details, r) :
                  x.success =>
                      /\ Returned(r)
                      /\ Out(r).success
                      /\ Out(r).shape_id = x.shape_id

----------------------------------------------------------------------------
\* C25: in every adapter an empty response of a model counts as a failure
\* for fallback: when a model that is not the last configured one returned
\* an empty response, the adapter went on to call the model after it, and
\* the text of a later model is the request's response.
C25_EmptyFallsBack ==
    \A r \in Requests :
        Done(r) =>
            \A k \in 1..Len(calls[r]) :
                (calls[r][k].outcome = "empty" /\ calls[r][k].idx < Len(models)) =>
                    /\ k < Len(calls[r])
                    /\ calls[r][k + 1].idx = calls[r][k].idx + 1
                    /\ calls[r][Len(calls[r])].outcome = "text" =>
                          response[r].kind = "text"

----------------------------------------------------------------------------
\* The handler of r got the AI result from gather and answered with a
\* ShapeRecognitionClient.
MappedAiResult(r) ==
    /\ hpc[r] = "replied"
    /\ reply[r].kind = "response"
    /\ AiTaskDone(r)
    /\ ret[r].kind = "returned"
    /\ save_task[r] = "done"

\* C26: ProcessDrawing maps the AI outcome to the client response: AI
\* success with score >= the shape's threshold gives success = true with the
\* shape's prefab_name; AI success with a score below the threshold gives
\* success = true with prefab_name "Unknown"; an AI failure gives
\* success = false, prefab_name "Unknown" and the AI result's error_message.
C26_OutcomeMapping ==
    \A r \in Requests :
        MappedAiResult(r) =>
            LET ai_result == ret[r].value
                shape_info == get_shape_info_by_id(ai_result.shape_id)
            IN  /\ (ai_result.success /\ shape_info.found
                        /\ ai_result.score >= shape_info.threshold) =>
                      /\ reply[r].success
                      /\ reply[r].prefab_name = shape_info.prefab_name
                /\ (ai_result.success /\ shape_info.found
                        /\ ai_result.score < shape_info.threshold) =>
                      /\ reply[r].success
                      /\ reply[r].prefab_name = "Unknown"
                /\ ~ai_result.success =>
                      /\ ~reply[r].success
                      /\ reply[r].prefab_name = "Unknown"
                      /\ reply[r].error_message = ai_result.error_message

----------------------------------------------------------------------------
\* The result_ids of the rows request r wrote to a table.
IdsOf(table, r) == {x.result_id : x \in RowsOf(table, r)}

\* C27: after a recognize call has finished, whatever sink write failed or
\* succeeded, the results table holds a row with a result_id iff the
\* details table holds a row with it, and no result row with success = true
\* exists for a call that returned a failed result.
C27_RowsPaired ==
    \A r \in Requests :
        Done(r) =>
            /\ IdsOf(results, r) = IdsOf(details, r)
            /\ (Returned(r) /\ ~Out(r).success) =>
                  \A x \in RowsOf(results, r) : ~x.success

----------------------------------------------------------------------------
\* recognize_shape was called for r with an empty catalogue, and
\* process_drawing has finished.
EmptyCatalog(r) ==
    /\ Done(r)
    /\ shape_infos[r] = <<>>
    /\ group[r] \in services

----------------------------------------------------------------------------
\* C29: get_pool creates at most one pool between two close_pool calls and
\* returns that same pool to every caller, also when several coroutines
\* call get_pool before the first creation has completed.
C29_OnePool ==
    /\ Cardinality(epoch) <= 1
    /\ \A c, d \in Callers :
          (gpc[c] = "returned" /\ gpc[d] = "returned"
              /\ got[c] \in epoch /\ got[d] \in epoch) => got[c] = got[d]

----------------------------------------------------------------------------
\* Every recursion of douglas_peucker on the points, and on what it passes
\* down, splits strictly inside the sequence and passes on two sequences
\* of at least 2 points that are shorter than the one it was given.
RECURSIVE ShrinkingCalls(_, _)
ShrinkingCalls(points, eps) ==
    IF Len(points) <= 2 THEN TRUE
    ELSE LET m == FindMax(points, 2, 1, Squared(0, 1))
         IN  IF ~Greater(m.dmax, Squared(eps * eps, 1)) THEN TRUE
             ELSE LET left == Left(points, m.index)
                      right == Right(points, m.index)
                  IN  /\ 1 < m.index /\ m.index < Len(points)
                      /\ 2 <= Len(left) /\ Len(left) < Len(points)
                      /\ 2 <= Len(right) /\ Len(right) < Len(points)
                      /\ ShrinkingCalls(left, eps)
                      /\ ShrinkingCalls(right, eps)

\* C30: douglas_peucker terminates for every finite point sequence and
\* every epsilon >= 0: whenever it recurses the split index is strictly
\* between the first and the last index, so both recursive calls receive a
\* sequence strictly shorter than the input and of length at least 2.
C30_Terminates ==
    stroke.status \notin {"off", "pending"} =>
        /\ epsilon >= 0
        /\ ShrinkingCalls(positions, epsilon)
        /\ positions # <<>> => StrokeReturned

\* C30 witness: a stroke of four points whose simplification recursed
\* into a part that recursed again (every point was kept), and returned.
C30_Witness ==
    /\ StrokeReturned
    /\ Len(positions) = 4
    /\ epsilon > 0
    /\ stroke.features.points_count = 4
    /\ Cardinality({positions[i] : i \in 1..4}) = 4

====
